---- MODULE Spec2Model ----
(***************************************************************************)
(* Model of ds-xml (src/main.go): the token walk of parseXML over the      *)
(* tokens delivered by encoding/xml's strict Decoder, and the chunked      *)
(* write loop of main.                                                     *)
(*                                                                         *)
(* One action is one iteration of parseXML's for-loop (one call of         *)
(* decoder.Token() and the switch on the token), or one step of main       *)
(* after parseXML has returned.                                            *)
(***************************************************************************)
EXTENDS Integers, Sequences, FiniteSets, TLC

(***************************************************************************)
(* Bounds of the model.                                                    *)
(***************************************************************************)
\* Largest number of tokens the decoder delivers before the input ends.
MaxTokens == 5
\* Largest number of fragments handed to the write loop in SpecChunk.
MaxEntries == 5

(***************************************************************************)
(* Inputs.                                                                 *)
(***************************************************************************)
\* -node flag: main returns at once when it is empty, so it is non-empty.
parentNode == "p"
\* Local names of the elements of the input document.
Names == {"p", "c", "o"}
\* Values of the -ref flag: absent, or the name of the child element.
RefNodes == {"", "c"}
\* Character data of the input document, as sequences of characters.
Texts == { <<" ", "1", "\n">>, <<"1", "X">> }
\* Reference lists produced by readCSV: trimmed, non-empty ids.
RefLists == { <<>>, <<<<"1">>>>, <<<<"2">>, <<"1">>>> }
\* Values of the -chunk flag.
ChunkFlags == -1 .. (MaxEntries + 1)

VARIABLES
  referenceIDs,    \* parseXML parameter: ids read from the CSV
  refNode,         \* parseXML parameter: -ref flag
  tokens,          \* tokens decoder.Token() has returned so far
  stk,             \* decoder: names of the elements still open
  eof,             \* decoder: the input has been read to its end
  currentDepth,
  buffer,          \* bytes.Buffer, as the sequence of tokens written to it
  encoder,         \* xml.Encoder: tokens not yet flushed, and its open tags
  captureDepth,
  insideParent,
  matchFound,
  results,
  pc,              \* "walk", "parsed", "loop", "exit"
  matchingEntries, \* main: first value returned by parseXML
  err,             \* main: second value returned by parseXML
  chunkSize,       \* -chunk flag
  totalEntries,
  chunk,
  i,
  calls,           \* calls of writeToXML: part index, nodes, success
  outcome          \* what main printed last

vars == << referenceIDs, refNode, tokens, stk, eof, currentDepth, buffer, encoder,
           captureDepth, insideParent, matchFound, results, pc,
           matchingEntries, err, chunkSize, totalEntries, chunk, i, calls,
           outcome >>

walkVars == << tokens, stk, eof, currentDepth, buffer, encoder, captureDepth,
               insideParent, matchFound, results >>

mainVars == << matchingEntries, err, chunkSize, totalEntries, chunk, i,
               calls, outcome >>

(***************************************************************************)
(* Pure helpers.                                                           *)
(***************************************************************************)
IsSpace(ch) == ch \in {" ", "\n", "\t", "\r"}

RECURSIVE TrimLeft(_)
TrimLeft(s) ==
  IF s = <<>> THEN <<>>
  ELSE IF IsSpace(Head(s)) THEN TrimLeft(Tail(s)) ELSE s

RECURSIVE TrimRight(_)
TrimRight(s) ==
  IF s = <<>> THEN <<>>
  ELSE IF IsSpace(s[Len(s)]) THEN TrimRight(SubSeq(s, 1, Len(s) - 1)) ELSE s

\* strings.TrimSpace
TrimSpace(s) == TrimRight(TrimLeft(s))

\* contains(slice, item): linear scan for an equal element
RECURSIVE contains(_, _)
contains(slice, item) ==
  IF slice = <<>> THEN FALSE
  ELSE IF Head(slice) = item THEN TRUE ELSE contains(Tail(slice), item)

\* The token the decoder delivers next; pos is its index in the document.
StartElement(n) == [kind |-> "start", name |-> n, data |-> <<>>,
                    pos |-> Len(tokens) + 1]
EndElement(n) == [kind |-> "end", name |-> n, data |-> <<>>,
                  pos |-> Len(tokens) + 1]
CharData(d) == [kind |-> "text", name |-> "", data |-> d,
                pos |-> Len(tokens) + 1]
\* Comment, ProcInst or Directive: no case of parseXML's switch takes it.
OtherToken == [kind |-> "other", name |-> "", data |-> <<>>,
               pos |-> Len(tokens) + 1]

\* var captureDepth = -1: no span is being captured
NoCapture == -1

\* variant: a start tag met while capturing never begins a span
StartsCaptureOnce(n) == n = parentNode /\ ~insideParent

\* t.Name.Local == parentNode on a start tag: a capture span begins
StartsCapture(n) == n = parentNode

\* t.Name.Local == parentNode && currentDepth == captureDepth on an end tag
SpanEnds(n) == n = parentNode /\ currentDepth = captureDepth

\* variant: the fragment is put in front
PrependResult(res, frag) == <<frag>> \o res

\* results = append(results, buffer.String())
AppendResult(res, frag) == Append(res, frag)

\* variant: the fragments collected so far are returned next to the error
PartialResult == results

\* the nil slice parseXML returns next to an error
NilResult == <<>>

\* var encoder *xml.Encoder: no encoder yet
NilEncoder == [pending |-> <<>>, tags |-> <<>>]

\* variant: the encoder of the previous span is kept
KeptEncoder == encoder

\* xml.NewEncoder(&buffer)
NewEncoder == [pending |-> <<>>, tags |-> <<>>]

\* encoder.EncodeToken(t) succeeds unless t is an end tag that does not close
\* the encoder's innermost open tag.
EncodeOk(e, t) ==
  t.kind = "end" => (e.tags # <<>> /\ e.tags[Len(e.tags)] = t.name)

\* variant: end tags are not written
EncodeTokenNoEnd(e, t) ==
  IF t.kind = "end" THEN [e EXCEPT !.tags = SubSeq(e.tags, 1, Len(e.tags) - 1)]
  ELSE [pending |-> Append(e.pending, t),
        tags |-> IF t.kind = "start" THEN Append(e.tags, t.name) ELSE e.tags]

\* encoder.EncodeToken(t): the token is written behind the pending ones
EncodeToken(e, t) ==
  [pending |-> Append(e.pending, t),
   tags |-> IF t.kind = "start" THEN Append(e.tags, t.name)
            ELSE IF t.kind = "end" THEN SubSeq(e.tags, 1, Len(e.tags) - 1)
            ELSE e.tags]

\* encoder.Flush(): the pending tokens reach the buffer
FlushBuffer(b, e) == b \o e.pending
FlushEncoder(e) == [e EXCEPT !.pending = <<>>]

(***************************************************************************)
(* Initial state: parseXML has read the file and created the decoder.      *)
(***************************************************************************)
Init ==
  /\ referenceIDs \in RefLists
  /\ refNode \in RefNodes
  /\ tokens = <<>>
  /\ stk = <<>>
  /\ eof = FALSE
  /\ currentDepth = 0
  /\ buffer = <<>>
  /\ encoder = NilEncoder
  /\ captureDepth = NoCapture
  /\ insideParent = FALSE
  /\ matchFound = FALSE
  /\ results = <<>>
  /\ pc = "walk"
  /\ matchingEntries = <<>>
  /\ err = "nil"
  /\ chunkSize = 0
  /\ totalEntries = 0
  /\ chunk = 0
  /\ i = 0
  /\ calls = <<>>
  /\ outcome = ""

\* parseXML returns (res, e) to main
Return(res, e) ==
  /\ pc' = "parsed"
  /\ matchingEntries' = res
  /\ err' = e
  /\ UNCHANGED << chunkSize, totalEntries, chunk, i, calls, outcome >>

(***************************************************************************)
(* parseXML: one loop iteration per action.                                *)
(***************************************************************************)
\* case xml.StartElement
WalkStartElement ==
  /\ pc = "walk"
  /\ Len(tokens) < MaxTokens
  /\ \E n \in Names :
       LET t == StartElement(n)
           d == currentDepth + 1
       IN /\ tokens' = Append(tokens, t)
          /\ stk' = Append(stk, n)
          /\ currentDepth' = d
          /\ IF StartsCapture(n)
             THEN /\ insideParent' = TRUE
                  /\ captureDepth' = d
                  /\ buffer' = <<>>
                  /\ encoder' = EncodeToken(NewEncoder, t)
                  /\ matchFound' = IF refNode = "" THEN TRUE ELSE matchFound
             ELSE /\ encoder' = IF insideParent THEN EncodeToken(encoder, t)
                                ELSE encoder
                  /\ UNCHANGED << insideParent, captureDepth, buffer,
                                  matchFound >>
          /\ UNCHANGED << eof, results, pc, referenceIDs, refNode >>
          /\ UNCHANGED mainVars

\* case xml.EndElement: the strict decoder only delivers the end tag of the
\* innermost open element.
WalkEndElement ==
  /\ pc = "walk"
  /\ Len(tokens) < MaxTokens
  /\ stk # <<>>
  /\ LET n == stk[Len(stk)]
         t == EndElement(n)
     IN /\ tokens' = Append(tokens, t)
        /\ stk' = SubSeq(stk, 1, Len(stk) - 1)
        /\ IF insideParent /\ ~EncodeOk(encoder, t)
           THEN /\ Return(NilResult, "encode")
                /\ UNCHANGED << currentDepth, buffer, encoder, captureDepth,
                                insideParent, matchFound, results >>
           ELSE /\ currentDepth' = currentDepth - 1
                /\ IF insideParent
                   THEN IF SpanEnds(n)
                        THEN LET e == EncodeToken(encoder, t) IN
                             /\ results' =
                                  IF matchFound
                                  THEN AppendResult(results, FlushBuffer(buffer, e))
                                  ELSE results
                             /\ encoder' = IF matchFound THEN FlushEncoder(e)
                                           ELSE e
                             /\ buffer' = <<>>
                             /\ insideParent' = FALSE
                             /\ captureDepth' = NoCapture
                             /\ matchFound' = FALSE
                        ELSE /\ encoder' = EncodeToken(encoder, t)
                             /\ UNCHANGED << buffer, insideParent,
                                             captureDepth, matchFound,
                                             results >>
                   ELSE UNCHANGED << buffer, encoder, insideParent,
                                     captureDepth, matchFound, results >>
                /\ UNCHANGED pc
                /\ UNCHANGED mainVars
  /\ UNCHANGED << eof, referenceIDs, refNode >>

\* case xml.CharData
WalkCharData ==
  /\ pc = "walk"
  /\ Len(tokens) < MaxTokens
  /\ \E d \in Texts :
       LET t == CharData(d)
           text == TrimSpace(d)
       IN /\ tokens' = Append(tokens, t)
          /\ IF insideParent
             THEN /\ matchFound' =
                       IF refNode # "" /\ captureDepth # NoCapture
                          /\ contains(referenceIDs, text)
                       THEN TRUE ELSE matchFound
                  /\ encoder' = EncodeToken(encoder, t)
             ELSE UNCHANGED << matchFound, encoder >>
          /\ UNCHANGED << stk, eof, currentDepth, buffer, captureDepth,
                          insideParent, results, pc, referenceIDs, refNode >>
          /\ UNCHANGED mainVars

\* a token of any other type: the switch has no case for it
WalkOtherToken ==
  /\ pc = "walk"
  /\ Len(tokens) < MaxTokens
  /\ tokens' = Append(tokens, OtherToken)
  /\ UNCHANGED << stk, eof, currentDepth, buffer, encoder, captureDepth,
                  insideParent, matchFound, results, pc, referenceIDs,
                  refNode >>
  /\ UNCHANGED mainVars

\* variant: the end of the input is io.EOF whatever is still open
DecoderEOFLenient == "EOF"

\* The input ends.  With no element open the decoder returns io.EOF and the
\* loop breaks; with an element still open the strict decoder returns the
\* syntax error "unexpected EOF".
DecoderEOF == IF stk = <<>> THEN "EOF" ELSE "unexpectedEOF"

WalkEOF ==
  /\ pc = "walk"
  /\ IF DecoderEOF = "EOF"
     THEN Return(results, "nil")
     ELSE Return(NilResult, DecoderEOF)
  /\ eof' = TRUE
  /\ UNCHANGED << tokens, stk, currentDepth, buffer, encoder, captureDepth,
                  insideParent, matchFound, results >>
  /\ UNCHANGED << referenceIDs, refNode >>

\* The decoder cannot tokenize what follows: any other error of Token().
WalkTokenError ==
  /\ pc = "walk"
  /\ Return(NilResult, "syntax")
  /\ UNCHANGED walkVars
  /\ UNCHANGED << referenceIDs, refNode >>

(***************************************************************************)
(* main, after parseXML has returned.                                      *)
(***************************************************************************)
\* if err != nil { print; return }
MainParseError ==
  /\ pc = "parsed"
  /\ err # "nil"
  /\ pc' = "exit"
  /\ outcome' = "error"
  /\ UNCHANGED << matchingEntries, err, chunkSize, totalEntries, chunk, i,
                  calls >>
  /\ UNCHANGED walkVars
  /\ UNCHANGED << referenceIDs, refNode >>

\* if len(matchingEntries) == 0 { print "No matching entries found." }
MainNoMatches ==
  /\ pc = "parsed"
  /\ err = "nil"
  /\ Len(matchingEntries) = 0
  /\ pc' = "exit"
  /\ outcome' = "nomatch"
  /\ UNCHANGED << matchingEntries, err, chunkSize, totalEntries, chunk, i,
                  calls >>
  /\ UNCHANGED walkVars
  /\ UNCHANGED << referenceIDs, refNode >>

\* chunk as main computes it from the flag and the number of entries
ChunkOf(c, total) == IF c <= 0 \/ c > total THEN total ELSE c

\* else-branch up to the loop: create the output folder, settle chunk
MainChunkSetup ==
  /\ pc = "parsed"
  /\ err = "nil"
  /\ Len(matchingEntries) # 0
  /\ \E mkdirOk \in BOOLEAN, c \in ChunkFlags :
       IF ~mkdirOk
       THEN /\ pc' = "exit"
            /\ outcome' = "mkdirfail"
            /\ UNCHANGED << chunkSize, totalEntries, chunk, i >>
       ELSE /\ chunkSize' = c
            /\ totalEntries' = Len(matchingEntries)
            /\ chunk' = ChunkOf(c, Len(matchingEntries))
            /\ i' = 0
            /\ pc' = "loop"
            /\ UNCHANGED outcome
  /\ UNCHANGED << matchingEntries, err, calls >>
  /\ UNCHANGED walkVars
  /\ UNCHANGED << referenceIDs, refNode >>

\* variant: parts are numbered from 0
PartIndexFromZero(k, c) == k \div c

\* i/chunk+1
PartIndex(k, c) == (k \div c) + 1

\* one iteration of the chunk loop
MainWriteChunk ==
  /\ pc = "loop"
  /\ i < totalEntries
  /\ LET end == IF i + chunk > totalEntries THEN totalEntries ELSE i + chunk
     IN \E ok \in BOOLEAN :
          /\ calls' = Append(calls,
                        [part |-> PartIndex(i, chunk),
                         nodes |-> SubSeq(matchingEntries, i + 1, end),
                         ok |-> ok])
          /\ outcome' = IF ok THEN "written" ELSE "writefail"
  /\ i' = i + chunk
  /\ UNCHANGED << matchingEntries, err, chunkSize, totalEntries, chunk, pc >>
  /\ UNCHANGED walkVars
  /\ UNCHANGED << referenceIDs, refNode >>

\* the loop condition fails
MainLoopExit ==
  /\ pc = "loop"
  /\ ~(i < totalEntries)
  /\ pc' = "exit"
  /\ UNCHANGED mainVars
  /\ UNCHANGED walkVars
  /\ UNCHANGED << referenceIDs, refNode >>

Next ==
  \/ WalkStartElement
  \/ WalkEndElement
  \/ WalkCharData
  \/ WalkOtherToken
  \/ WalkEOF
  \/ WalkTokenError
  \/ MainParseError
  \/ MainNoMatches
  \/ MainChunkSetup
  \/ MainWriteChunk
  \/ MainLoopExit

Spec == Init /\ [][Next]_vars

(***************************************************************************)
(* The write loop of main on its own: parseXML has returned n fragments    *)
(* without error, here after walking n elements <p></p> with -ref absent.  *)
(***************************************************************************)
EmptyParents(n) ==
  [k \in 1 .. (2 * n) |->
     [kind |-> IF k % 2 = 1 THEN "start" ELSE "end", name |-> parentNode,
      data |-> <<>>, pos |-> k]]

InitChunk ==
  /\ referenceIDs = <<>>
  /\ refNode = ""
  /\ \E n \in 0 .. MaxEntries :
       /\ tokens = EmptyParents(n)
       /\ results = [k \in 1 .. n |->
                       SubSeq(EmptyParents(n), 2 * k - 1, 2 * k)]
       /\ matchingEntries = results
  /\ stk = <<>>
  /\ eof = TRUE
  /\ currentDepth = 0
  /\ buffer = <<>>
  /\ encoder = NilEncoder
  /\ captureDepth = NoCapture
  /\ insideParent = FALSE
  /\ matchFound = FALSE
  /\ pc = "parsed"
  /\ err = "nil"
  /\ chunkSize = 0
  /\ totalEntries = 0
  /\ chunk = 0
  /\ i = 0
  /\ calls = <<>>
  /\ outcome = ""

NextChunk ==
  \/ MainNoMatches
  \/ MainChunkSetup
  \/ MainWriteChunk
  \/ MainLoopExit

\* main is sequential code: a step that can be taken is taken
SpecChunk == InitChunk /\ [][NextChunk]_vars /\ WF_vars(NextChunk)

(***************************************************************************)
(* The document, read off the tokens delivered so far.                     *)
(***************************************************************************)
IsParentOpen(t) == t.kind = "start" /\ t.name = parentNode
IsParentClose(t) == t.kind = "end" /\ t.name = parentNode
IsMarkup(t) == t.kind \in {"start", "end", "text"}

\* nesting depth after the k-th token of h
DepthAfter(h, k) ==
  Cardinality({j \in 1 .. k : h[j].kind = "start"})
    - Cardinality({j \in 1 .. k : h[j].kind = "end"})

\* index of the end tag that closes the start tag at index a; 0 if none yet
MatchingClose(h, a) ==
  LET C == {j \in (a + 1) .. Len(h) :
              h[j].kind = "end" /\ DepthAfter(h, j) = DepthAfter(h, a) - 1}
  IN IF C = {} THEN 0 ELSE CHOOSE j \in C : \A k \in C : j <= k

\* indices of the parentName start tags of h
ParentOpens(h) == {a \in 1 .. Len(h) : IsParentOpen(h[a])}

\* the text token at index k trims to a reference id
TextMatches(h, k) ==
  h[k].kind = "text" /\ \E r \in 1 .. Len(referenceIDs) :
                          referenceIDs[r] = TrimSpace(h[k].data)

\* index of the start tag of the innermost element that encloses index k
Enclosing(h, k) ==
  LET S == {a \in 1 .. (k - 1) :
              /\ h[a].kind = "start"
              /\ (MatchingClose(h, a) = 0 \/ MatchingClose(h, a) > k)}
  IN IF S = {} THEN 0 ELSE CHOOSE a \in S : \A b \in S : b <= a

\* a sequence of tokens whose tags are balanced and properly nested
RECURSIVE OpenAfter(_, _)
OpenAfter(f, open) ==
  IF f = <<>> THEN open
  ELSE LET t == Head(f) IN
       IF t.kind = "start" THEN OpenAfter(Tail(f), Append(open, t.name))
       ELSE IF t.kind = "end"
            THEN IF open # <<>> /\ open[Len(open)] = t.name
                 THEN OpenAfter(Tail(f), SubSeq(open, 1, Len(open) - 1))
                 ELSE <<"unbalanced">>
            ELSE OpenAfter(Tail(f), open)
Balanced(f) == OpenAfter(f, <<>>) = <<>>

\* the step processes one more token, LastToken' in the next state
TokenStep == Len(tokens') = Len(tokens) + 1
LastToken == tokens[Len(tokens)]

(***************************************************************************)
(* C1: with -ref given, a parentName element is emitted only if a text     *)
(* token inside its own span (open tag to matching close tag) trims to a   *)
(* member of the reference list; no span is already marked as matched      *)
(* when its open tag is processed.                                         *)
(***************************************************************************)
C1_OwnTextMatches ==
  refNode # "" =>
    \A m \in 1 .. Len(results) :
      LET a == results[m][1].pos
          b == MatchingClose(tokens, a)
      IN \E k \in a .. b : TextMatches(tokens, k)

C1_EmittedOnlyOnOwnMatch ==
  /\ []C1_OwnTextMatches
  /\ [][(TokenStep /\ IsParentOpen(LastToken') /\ refNode # "")
          => ~matchFound]_vars

(***************************************************************************)
(* C2: with -ref absent, a normal return of parseXML carries one fragment  *)
(* per parentName open tag of the input.                                   *)
(***************************************************************************)
C2_OneFragmentPerParentOpen ==
  (pc # "walk" /\ err = "nil" /\ refNode = "") =>
    Len(matchingEntries) = Cardinality(ParentOpens(tokens))

(***************************************************************************)
(* C3: with -ref given, an emitted parent contains an element named by     *)
(* -ref whose text trims to a reference id; a matching text under another  *)
(* element or directly under the parent is not enough.                     *)
(***************************************************************************)
C3_MatchUnderRefNodeOnly ==
  refNode # "" =>
    \A m \in 1 .. Len(results) :
      LET a == results[m][1].pos
          b == MatchingClose(tokens, a)
      IN \E k \in a .. b :
           /\ TextMatches(tokens, k)
           /\ Enclosing(tokens, k) > a
           /\ tokens[Enclosing(tokens, k)].name = refNode

(***************************************************************************)
(* C4: every fragment is exactly the start, end and text tokens of the     *)
(* input from one parentName open tag through its matching close tag, in   *)
(* order; it is balanced, begins with that open tag and ends with that     *)
(* close tag.                                                              *)
(***************************************************************************)
FragmentIsSpan(f) ==
  /\ Len(f) >= 2
  /\ LET a == f[1].pos
         b == f[Len(f)].pos
     IN /\ a \in 1 .. Len(tokens)
        /\ IsParentOpen(tokens[a])
        /\ b = MatchingClose(tokens, a)
        /\ IsParentClose(tokens[b])
        /\ f = SelectSeq(SubSeq(tokens, a, b), IsMarkup)
  /\ IsParentOpen(f[1])
  /\ IsParentClose(f[Len(f)])
  /\ Balanced(f)

C4_FragmentIsExactSpan ==
  /\ \A m \in 1 .. Len(results) : FragmentIsSpan(results[m])
  /\ \A m \in 1 .. Len(matchingEntries) : FragmentIsSpan(matchingEntries[m])

\* a fragment with content, from a span that is preceded by another token and
\* holds a token that is not copied
C4_Witness ==
  \E m \in 1 .. Len(matchingEntries) :
    LET f == matchingEntries[m] IN
      /\ Len(f) >= 3
      /\ f[1].pos > 1
      /\ f[Len(f)].pos - f[1].pos + 1 > Len(f)

(***************************************************************************)
(* C5: fragments are in the document order of their open tags, and no      *)
(* element is emitted twice: the open-tag positions strictly increase.     *)
(***************************************************************************)
C5_DocumentOrder ==
  /\ \A m, n \in 1 .. Len(results) :
       m < n => results[m][1].pos < results[n][1].pos
  /\ \A m, n \in 1 .. Len(matchingEntries) :
       m < n => matchingEntries[m][1].pos < matchingEntries[n][1].pos

C5_Witness == pc = "exit" /\ Len(matchingEntries) >= 2 /\ Len(calls) >= 1

(***************************************************************************)
(* C6: when tokenization fails, parseXML returns the error and no          *)
(* fragment, whatever had been collected, and main writes no file.         *)
(***************************************************************************)
C6_ErrorReturnsNothing ==
  (pc # "walk" /\ err # "nil") =>
    /\ matchingEntries = <<>>
    /\ calls = <<>>
    /\ pc \in {"parsed", "exit"}
    /\ (pc = "exit" => outcome = "error")

C6_Witness ==
  pc = "exit" /\ err = "syntax" /\ Len(results) >= 1 /\ calls = <<>>

(***************************************************************************)
(* C7, as stated: when the input ends inside a capture span, parseXML      *)
(* returns without error, with the fragments of the spans closed before.   *)
(***************************************************************************)
C7_Original ==
  (pc # "walk" /\ eof /\ insideParent) =>
    (err = "nil" /\ matchingEntries = results)

(***************************************************************************)
(* C7, amended: when the input ends inside a capture span, the decoder     *)
(* reports "unexpected EOF", and parseXML returns that error and no        *)
(* fragment; it returns normally at the end of the input only when no span *)
(* is open.                                                                *)
(***************************************************************************)
C7_UnterminatedSpanIsError ==
  (pc # "walk" /\ eof) =>
    /\ insideParent => (err = "unexpectedEOF" /\ matchingEntries = <<>>
                        /\ calls = <<>>)
    /\ err = "nil" => (~insideParent /\ matchingEntries = results)

C7_Witness ==
  pc = "exit" /\ eof /\ insideParent /\ Len(results) >= 1

(***************************************************************************)
(* C8: the groups main hands to writeToXML partition the fragments in      *)
(* order: contiguous, non-overlapping, non-empty, of at most -chunk        *)
(* fragments when 1 <= -chunk <= n and one group otherwise, numbered       *)
(* 1, 2, ..., k; the loop ends; no group for n = 0.  (The output folder    *)
(* is taken to be creatable: main stops before the loop otherwise.)        *)
(***************************************************************************)
RECURSIVE Concat(_)
Concat(cs) == IF cs = <<>> THEN <<>> ELSE Head(cs).nodes \o Concat(Tail(cs))

C8_Inv ==
  LET n == Len(matchingEntries)
      all == Concat(calls)
  IN /\ n = 0 => calls = <<>>
     /\ \A k \in 1 .. Len(calls) :
          /\ calls[k].part = k
          /\ calls[k].nodes # <<>>
          /\ (1 <= chunkSize /\ chunkSize <= n)
               => Len(calls[k].nodes) <= chunkSize
          /\ ~(1 <= chunkSize /\ chunkSize <= n)
               => (k = 1 /\ calls[k].nodes = matchingEntries)
     /\ Len(all) <= n
     /\ all = SubSeq(matchingEntries, 1, Len(all))
     /\ (pc = "exit" /\ outcome \in {"written", "writefail"})
          => all = matchingEntries
     /\ (pc = "exit" /\ n > 0 /\ outcome # "mkdirfail")
          => outcome \in {"written", "writefail"}

C8_OrderedPartition == []C8_Inv /\ <>(pc = "exit")

\* five fragments, -chunk 2: groups of 2, 2 and 1
C8_Witness ==
  /\ pc = "exit"
  /\ Len(matchingEntries) = 5
  /\ chunkSize = 2
  /\ Len(calls) = 3
  /\ Len(calls[1].nodes) = 2
  /\ Len(calls[2].nodes) = 2
  /\ Len(calls[3].nodes) = 1

(***************************************************************************)
(* C9.  A parentName open tag (re)starts the capture: buffer and capture   *)
(* depth are overwritten; a parentName close tag met while capturing ends  *)
(* it; no fragment holds a parentName open tag after its first token, so   *)
(* an element with a same-named descendant is never emitted.               *)
(***************************************************************************)
C9_Restart ==
  (TokenStep /\ IsParentOpen(LastToken')) =>
    /\ insideParent'
    /\ captureDepth' = currentDepth'
    /\ buffer' = <<>>
    /\ encoder'.pending = <<LastToken'>>

C9_InnerCloseEnds ==
  (TokenStep /\ IsParentClose(LastToken') /\ insideParent) =>
    (~insideParent' /\ captureDepth' = NoCapture /\ buffer' = <<>>)

C9_OuterNeverEmitted ==
  \A m \in 1 .. Len(results) :
    \A k \in 2 .. Len(results[m]) : ~IsParentOpen(results[m][k])

\* the token is neither buffered nor inspected for a match
NotCaptured ==
  /\ encoder' = encoder
  /\ buffer' = buffer
  /\ matchFound' = matchFound
  /\ results' = results

\* a parentName element is still open and holds a parentName element that
\* has been closed
InsideOuterAfterInner ==
  \E a \in ParentOpens(tokens) :
    /\ MatchingClose(tokens, a) = 0
    /\ \E b \in ParentOpens(tokens) :
         b > a /\ MatchingClose(tokens, b) # 0

\* the innermost parentName element still open holds a closed one, so the
\* next token belongs to it and to no further nested parentName element,
\* unless that token opens one
LooseInOuterAfterInner ==
  /\ InsideOuterAfterInner
  /\ \A a \in ParentOpens(tokens) :
       MatchingClose(tokens, a) = 0 =>
         \E b \in ParentOpens(tokens) : b > a

C10_StateInv ==
  /\ insideParent <=> (captureDepth # -1)
  /\ insideParent => (1 <= captureDepth /\ captureDepth <= currentDepth)
  /\ matchFound => insideParent
  /\ currentDepth >= 0
  /\ currentDepth = Len(stk)

C10_WalkInvariants ==
  /\ []C10_StateInv
  /\ [][(TokenStep /\ IsParentClose(LastToken') /\ insideParent)
          => currentDepth = captureDepth]_vars

\* a parentName element nested in another element has just been closed
C10_Witness ==
  /\ Len(tokens) >= 3
  /\ IsParentClose(LastToken)
  /\ currentDepth >= 1
  /\ ~insideParent
  /\ captureDepth = -1
====
